---------------------------- MODULE Spec2Model ----------------------------
(***************************************************************************)
(* One-shot channels (chap-5-channels, chap-5-safer-channel,               *)
(* chap-5-unarced-channel) and the spin lock (spin-lock) of                *)
(* Rust-Atomics-and-Locks, as state machines.                              *)
(*                                                                         *)
(* Every atomic operation (swap, load, store) is one step.  A non-atomic   *)
(* payload write is two steps (the slot is Torn in between), and a         *)
(* non-atomic read of a slot that holds no fully written value is          *)
(* undefined behaviour: it yields any value or garbage.                    *)
(* The atomics are interleaved sequentially consistently: every flag of    *)
(* the programs is a single atomic with one modification order, and the    *)
(* Release store / Acquire swap pairs on ready and locked order the        *)
(* payload accesses around them, so a thread that has seen the flag sees   *)
(* the payload written before it.                                          *)
(*                                                                         *)
(* The repository holds several programs; prog, chosen by Init, says which *)
(* one runs.  The three Channel structs share the field names message and  *)
(* ready, so the variables message and ready are the fields of the Channel *)
(* of the running program.                                                 *)
(***************************************************************************)
EXTENDS Integers, Sequences, FiniteSets, TLC

\* ------------------------------------------------------------- bounds
\* Number of distinct payload values a send may carry.
NumValues == 2
\* Threads sharing one &Channel in chap-5-channels.
NumThreads == 2
\* Calls made on one Channel (send, is_ready, recieve together; is_ready
\* alone for the endpoint variants, whose send and receive consume self).
MaxCalls == 4
\* Successive split() calls on one Channel storage in chap-5-unarced-channel.
MaxGen == 2
\* lock()/drop rounds of each thread of the counter program.
Iterations == 2
\* Calls of allocate_new_id_updated() each thread makes (main's loops are
\* endless).
MaxAllocs == 2

\* assert!(id < 1000), chap-2_p2 line 75.
IdLimit == 1000

Values == 1..NumValues
\* MaybeUninit::uninit(): the slot holds no value.
Uninit == 0
\* A payload write that has begun and not finished.
Torn == -1
\* What a read of the slot can produce when it holds no fully written value.
Garbage == Values \cup {Uninit}

Threads == 1..NumThreads
NoThread == 0

VARIABLES
    prog,       \* which program of the repository runs
    message,    \* Channel.message: UnsafeCell<MaybeUninit<T>>
    ready,      \* Channel.ready: AtomicBool
    in_use,     \* Channel.in_use: AtomicBool (chap-5-channels only)
    live,       \* the Channel has not been dropped
    endpoints,  \* the Sender / Receiver values that exist
    token,      \* the park token of the thread that called split()
    gen,        \* number of split() calls so far on the Channel storage
    pc,         \* per thread: where it stands
    arg,        \* per thread: the value its send carries
    res,        \* the call that completed last, and its outcome
    calls,      \* number of calls begun on the Channel (of this generation)
    published,  \* history: the sends whose release store of ready has run
    rlog,       \* history: the receive calls, in the order they began
    destroyed,  \* history: the values destroyed by Channel::drop
    locked,     \* SpinLock.locked: AtomicBool
    value,      \* SpinLock.value: UnsafeCell<T>
    guards,     \* the threads that hold a live Guard
    owner,      \* history: the thread whose swap last changed locked to true
    reg,        \* per thread: what it last read through its Guard
    ops,        \* per thread: payload updates made through its current Guard
    rounds,     \* per thread: Guards it has dropped
    NEW_ID,     \* chap-2_p2: static NEW_ID: AtomicU32
    id,         \* chap-2_p2, per thread: the local id of its running call
    allocs,     \* chap-2_p2, per thread: calls that have returned
    issued,     \* chap-2_p2, history: the ids returned, in the order of
                \* the compare_exchange_weak calls that succeeded
    LOCKED,     \* chap-3_p2: static LOCKED: AtomicBool
    DATA,       \* chap-3_p2: static mut DATA: String
    wins,       \* chap-3_p2, history: threads whose compare_exchange succeeded
    A,          \* chap-3_p2: static A: AtomicBool
    B,          \* chap-3_p2: static B: AtomicBool
    S,          \* chap-3_p2: static mut S: String
    seen,       \* chap-3_p2, per thread: what its load of the other flag returned
    local       \* chap-3_p2, per thread: the String as read by its running push

\* The state of the spin-lock programs, and of the channel programs.
lockVars == <<locked, value, guards, owner, reg, ops, rounds>>
chanVars == <<message, ready, in_use, live, endpoints, token, gen,
              arg, res, calls, published, rlog, destroyed>>
staticVars == <<NEW_ID, id, allocs, issued, LOCKED, DATA, wins, A, B, S, seen, local>>
vars == <<prog, pc, chanVars, lockVars, staticVars>>

\* Outcomes of a call: which thread made it, what it called, how it ended.
NoRes == [thr |-> NoThread, op |-> "none", out |-> "none", val |-> Uninit]
SendOk(t) == [thr |-> t, op |-> "send", out |-> "ok", val |-> Uninit]
SendPanic(t) == [thr |-> t, op |-> "send", out |-> "panic", val |-> Uninit]
RecvPanic(t) == [thr |-> t, op |-> "receive", out |-> "panic", val |-> Uninit]
RecvVal(t, v) == [thr |-> t, op |-> "receive", out |-> "val", val |-> v]
Polled(t, b) ==
    [thr |-> t, op |-> "is_ready", out |-> IF b THEN "true" ELSE "false", val |-> Uninit]

\* assume_init_read(): a bitwise copy out of the slot.  Reading a slot that
\* holds no fully written value is undefined behaviour.
ReadOutcomes(m) == IF m \in Values THEN {m} ELSE Garbage

\* The sends of the current generation whose publish has run.
PublishedNow == SelectSeq(published, LAMBDA e : e.gen = gen)

\* History: a receive call begins with its swap of ready.  after: a send of
\* this generation had already published when the call began; saw: what the
\* swap returned; out: "pending", "panic" or "val".
LogBegin(t, o) ==
    Append(rlog, [gen |-> gen, thr |-> t, after |-> PublishedNow # <<>>,
                  saw |-> ready, out |-> o, val |-> Uninit])

\* History: the pending receive call of thread t returns v.
LogReturn(t, v) ==
    [i \in DOMAIN rlog |->
        IF rlog[i].thr = t /\ rlog[i].out = "pending"
          THEN [rlog[i] EXCEPT !.out = "val", !.val = v]
          ELSE rlog[i]]

Idle(t) == pc[t] = "idle"

\* A thread begins a call on the channel.
Begin(t) ==
    /\ live
    /\ Idle(t)
    /\ calls < MaxCalls
    /\ calls' = calls + 1

\* ------------------------------------------------ chap-5-channels: Channel
\* Channel::new(), lines 69-75.
ChanNew ==
    /\ message = Uninit
    /\ ready = FALSE
    /\ in_use = FALSE
    /\ live = TRUE
    /\ endpoints = {}
    /\ token = FALSE
    /\ gen = 1

\* A send that does not look at in_use: it goes on to write whatever the
\* swap returned.
ChanSendSwap_NoGuard(t, v) ==
    /\ prog = "chan"
    /\ Begin(t)
    /\ in_use' = TRUE
    /\ pc' = [pc EXCEPT ![t] = "send_write"]
    /\ arg' = [arg EXCEPT ![t] = v]
    /\ UNCHANGED <<prog, staticVars, lockVars, message, ready, live, endpoints, token, gen,
                   res, published, rlog, destroyed>>

\* A send that loads in_use where the code swaps it: the flag is never set.
ChanSendSwap_Load(t, v) ==
    /\ prog = "chan"
    /\ Begin(t)
    /\ IF in_use
         THEN /\ res' = SendPanic(t)
              /\ UNCHANGED <<pc, arg>>
         ELSE /\ pc' = [pc EXCEPT ![t] = "send_write"]
              /\ arg' = [arg EXCEPT ![t] = v]
              /\ UNCHANGED res
    /\ UNCHANGED <<prog, staticVars, lockVars, message, ready, in_use, live, endpoints, token,
                   gen, published, rlog, destroyed>>

\* A send that stores the value before it tests in_use.
ChanSendSwap_WriteFirst(t, v) ==
    /\ prog = "chan"
    /\ Begin(t)
    /\ in_use' = TRUE
    /\ IF in_use
         THEN /\ res' = SendPanic(t)
              /\ message' = v
              /\ UNCHANGED <<pc, arg>>
         ELSE /\ pc' = [pc EXCEPT ![t] = "send_write"]
              /\ arg' = [arg EXCEPT ![t] = v]
              /\ UNCHANGED <<res, message>>
    /\ UNCHANGED <<prog, staticVars, lockVars, ready, live, endpoints, token, gen,
                   published, rlog, destroyed>>

\* send, line 78: in_use.swap(true, Relaxed); panic when it was already set.
ChanSendSwap(t, v) ==
    /\ prog = "chan"
    /\ Begin(t)
    /\ in_use' = TRUE
    /\ IF in_use
         THEN /\ res' = SendPanic(t)
              /\ UNCHANGED <<pc, arg>>
         ELSE /\ pc' = [pc EXCEPT ![t] = "send_write"]
              /\ arg' = [arg EXCEPT ![t] = v]
              /\ UNCHANGED res
    /\ UNCHANGED <<prog, staticVars, lockVars, message, ready, live, endpoints, token, gen,
                   published, rlog, destroyed>>

\* A send that stores true into ready before its write has completed.
ChanSendWriteBegin_ReadyFirst(t) ==
    /\ prog = "chan"
    /\ pc[t] = "send_write"
    /\ message' = Torn
    /\ ready' = TRUE
    /\ pc' = [pc EXCEPT ![t] = "send_write2"]
    /\ UNCHANGED <<prog, staticVars, lockVars, in_use, live, endpoints, token, gen,
                   arg, res, calls, published, rlog, destroyed>>

\* send, line 82: (*self.message.get()).write(value) begins.
ChanSendWriteBegin(t) ==
    /\ prog = "chan"
    /\ pc[t] = "send_write"
    /\ message' = Torn
    /\ pc' = [pc EXCEPT ![t] = "send_write2"]
    /\ UNCHANGED <<prog, staticVars, lockVars, ready, in_use, live, endpoints, token, gen,
                   arg, res, calls, published, rlog, destroyed>>

\* send, line 82: the write completes.
ChanSendWriteEnd(t) ==
    /\ prog = "chan"
    /\ pc[t] = "send_write2"
    /\ message' = arg[t]
    /\ pc' = [pc EXCEPT ![t] = "send_store"]
    /\ UNCHANGED <<prog, staticVars, lockVars, ready, in_use, live, endpoints, token, gen,
                   arg, res, calls, published, rlog, destroyed>>

\* send, line 83: ready.store(true, Release), the publish; send returns.
ChanSendStore(t) ==
    /\ prog = "chan"
    /\ pc[t] = "send_store"
    /\ ready' = TRUE
    /\ published' = Append(published, [gen |-> gen, val |-> arg[t]])
    /\ pc' = [pc EXCEPT ![t] = "idle"]
    /\ res' = SendOk(t)
    /\ UNCHANGED <<prog, staticVars, lockVars, message, in_use, live, endpoints, token, gen,
                   arg, calls, rlog, destroyed>>

\* An is_ready that loads the wrong flag, in_use.
ChanIsReady_InUse(t) ==
    /\ prog = "chan"
    /\ Begin(t)
    /\ res' = Polled(t, in_use)
    /\ UNCHANGED <<prog, staticVars, lockVars, message, ready, in_use, live, endpoints, token, gen,
                   pc, arg, published, rlog, destroyed>>

\* An is_ready that swaps false into ready where the code loads it.
ChanIsReady_Swap(t) ==
    /\ prog = "chan"
    /\ Begin(t)
    /\ res' = Polled(t, ready)
    /\ ready' = FALSE
    /\ UNCHANGED <<prog, staticVars, lockVars, message, in_use, live, endpoints, token, gen,
                   pc, arg, published, rlog, destroyed>>

\* is_ready, line 87: ready.load(Relaxed).
ChanIsReady(t) ==
    /\ prog = "chan"
    /\ Begin(t)
    /\ res' = Polled(t, ready)
    /\ UNCHANGED <<prog, staticVars, lockVars, message, ready, in_use, live, endpoints, token, gen,
                   pc, arg, published, rlog, destroyed>>

\* A recieve that loads ready where the code swaps it: the flag stays set.
ChanRecieveSwap_Load(t) ==
    /\ prog = "chan"
    /\ Begin(t)
    /\ IF ~ready
         THEN /\ res' = RecvPanic(t)
              /\ rlog' = LogBegin(t, "panic")
              /\ UNCHANGED pc
         ELSE /\ pc' = [pc EXCEPT ![t] = "recv_read"]
              /\ rlog' = LogBegin(t, "pending")
              /\ UNCHANGED res
    /\ UNCHANGED <<prog, staticVars, lockVars, message, ready, in_use, live, endpoints, token, gen,
                   arg, published, destroyed>>

\* A recieve that swaps ready and reads the slot whatever the swap returned.
ChanRecieveSwap_NoCheck(t) ==
    /\ prog = "chan"
    /\ Begin(t)
    /\ ready' = FALSE
    /\ pc' = [pc EXCEPT ![t] = "recv_read"]
    /\ rlog' = LogBegin(t, "pending")
    /\ UNCHANGED <<prog, staticVars, lockVars, message, in_use, live, endpoints, token, gen,
                   arg, res, published, destroyed>>

\* recieve, line 91: ready.swap(false, Acquire); panic when it was false.
ChanRecieveSwap(t) ==
    /\ prog = "chan"
    /\ Begin(t)
    /\ ready' = FALSE
    /\ IF ~ready
         THEN /\ res' = RecvPanic(t)
              /\ rlog' = LogBegin(t, "panic")
              /\ UNCHANGED pc
         ELSE /\ pc' = [pc EXCEPT ![t] = "recv_read"]
              /\ rlog' = LogBegin(t, "pending")
              /\ UNCHANGED res
    /\ UNCHANGED <<prog, staticVars, lockVars, message, in_use, live, endpoints, token, gen,
                   arg, published, destroyed>>

\* recieve, line 95: (*self.message.get()).assume_init_read().
ChanRecieveRead(t) ==
    /\ prog = "chan"
    /\ pc[t] = "recv_read"
    /\ \E v \in ReadOutcomes(message) :
         /\ res' = RecvVal(t, v)
         /\ rlog' = LogReturn(t, v)
    /\ pc' = [pc EXCEPT ![t] = "idle"]
    /\ UNCHANGED <<prog, staticVars, lockVars, message, ready, in_use, live, endpoints, token, gen,
                   arg, calls, published, destroyed>>

\* Drop for Channel, lines 60-66: runs with &mut self, so no call is in flight.
ChanDrop ==
    /\ prog = "chan"
    /\ live
    /\ \A t \in Threads : Idle(t)
    /\ live' = FALSE
    /\ destroyed' = IF ready
                      THEN Append(destroyed, [gen |-> gen, val |-> message])
                      ELSE destroyed
    /\ UNCHANGED <<prog, staticVars, lockVars, message, ready, in_use, endpoints, token, gen,
                   pc, arg, res, calls, published, rlog>>

ChanNext ==
    \/ \E t \in Threads, v \in Values : ChanSendSwap(t, v)
    \/ \E t \in Threads : ChanSendWriteBegin(t)
    \/ \E t \in Threads : ChanSendWriteEnd(t)
    \/ \E t \in Threads : ChanSendStore(t)
    \/ \E t \in Threads : ChanIsReady(t)
    \/ \E t \in Threads : ChanRecieveSwap(t)
    \/ \E t \in Threads : ChanRecieveRead(t)
    \/ ChanDrop

\* ------------------------------- chap-5-safer-channel: Arc Sender/Receiver
\* The Sender is moved to one thread and the Receiver is held by another
\* (main, lines 60-65).
SenderT == 1
ReceiverT == 2

\* channel(), lines 8-14: one Arc<Channel>, one Sender, one Receiver.
SafeChannel ==
    /\ message = Uninit
    /\ ready = FALSE
    /\ in_use = FALSE
    /\ live = TRUE
    /\ endpoints = {"Sender", "Receiver"}
    /\ token = FALSE
    /\ gen = 1

\* A Channel without its Drop: the slot is freed as MaybeUninit, which
\* destroys nothing.
SafeDrop_Leak(e) ==
    /\ endpoints' = endpoints \ {e}
    /\ live' = (endpoints \ {e} # {})
    /\ UNCHANGED destroyed

\* Drop for Channel, lines 50-56, run by Arc when the last endpoint goes.
SafeDrop(e) ==
    /\ endpoints' = endpoints \ {e}
    /\ IF endpoints \ {e} = {}
         THEN /\ live' = FALSE
              /\ destroyed' = IF ready
                                THEN Append(destroyed, [gen |-> gen, val |-> message])
                                ELSE destroyed
         ELSE UNCHANGED <<live, destroyed>>

\* Sender::send(self, message), line 33: the payload write begins.
SafeSendWriteBegin(v) ==
    /\ prog = "safe"
    /\ Idle(SenderT)
    /\ "Sender" \in endpoints
    /\ message' = Torn
    /\ arg' = [arg EXCEPT ![SenderT] = v]
    /\ pc' = [pc EXCEPT ![SenderT] = "send_write2"]
    /\ UNCHANGED <<prog, staticVars, lockVars, ready, in_use, live, endpoints, token, gen,
                   res, calls, published, rlog, destroyed>>

\* send, line 33: the write completes.
SafeSendWriteEnd ==
    /\ prog = "safe"
    /\ pc[SenderT] = "send_write2"
    /\ message' = arg[SenderT]
    /\ pc' = [pc EXCEPT ![SenderT] = "send_store"]
    /\ UNCHANGED <<prog, staticVars, lockVars, ready, in_use, live, endpoints, token, gen,
                   arg, res, calls, published, rlog, destroyed>>

\* send, line 34: channel.ready.store(true, Release).
SafeSendStore ==
    /\ prog = "safe"
    /\ pc[SenderT] = "send_store"
    /\ ready' = TRUE
    /\ published' = Append(published, [gen |-> gen, val |-> arg[SenderT]])
    /\ pc' = [pc EXCEPT ![SenderT] = "send_exit"]
    /\ res' = SendOk(SenderT)
    /\ UNCHANGED <<prog, staticVars, lockVars, message, in_use, live, endpoints, token, gen,
                   arg, calls, rlog, destroyed>>

\* send, line 35: self goes out of scope, its Arc is released.
SafeSendExit ==
    /\ prog = "safe"
    /\ pc[SenderT] = "send_exit"
    /\ SafeDrop("Sender")
    /\ pc' = [pc EXCEPT ![SenderT] = "done"]
    /\ UNCHANGED <<prog, staticVars, lockVars, message, ready, in_use, token, gen,
                   arg, res, calls, published, rlog>>

\* The Sender is dropped without a send.
SafeSenderUnused ==
    /\ prog = "safe"
    /\ Idle(SenderT)
    /\ "Sender" \in endpoints
    /\ SafeDrop("Sender")
    /\ pc' = [pc EXCEPT ![SenderT] = "done"]
    /\ UNCHANGED <<prog, staticVars, lockVars, message, ready, in_use, token, gen,
                   arg, res, calls, published, rlog>>

\* Receiver::is_ready(&self), line 40: channel.ready.load(Relaxed).
SafeIsReady ==
    /\ prog = "safe"
    /\ Begin(ReceiverT)
    /\ "Receiver" \in endpoints
    /\ res' = Polled(ReceiverT, ready)
    /\ UNCHANGED <<prog, staticVars, lockVars, message, ready, in_use, live, endpoints, token, gen,
                   pc, arg, published, rlog, destroyed>>

\* Receiver::receive(self), line 43: ready.swap(false, Acquire); panic when
\* it was false.
SafeReceiveSwap ==
    /\ prog = "safe"
    /\ Idle(ReceiverT)
    /\ "Receiver" \in endpoints
    /\ ready' = FALSE
    /\ IF ~ready
         THEN /\ res' = RecvPanic(ReceiverT)
              /\ rlog' = LogBegin(ReceiverT, "panic")
              /\ pc' = [pc EXCEPT ![ReceiverT] = "recv_exit"]
         ELSE /\ pc' = [pc EXCEPT ![ReceiverT] = "recv_read"]
              /\ rlog' = LogBegin(ReceiverT, "pending")
              /\ UNCHANGED res
    /\ UNCHANGED <<prog, staticVars, lockVars, message, in_use, live, endpoints, token, gen,
                   arg, calls, published, destroyed>>

\* receive, line 46: assume_init_read().
SafeReceiveRead ==
    /\ prog = "safe"
    /\ pc[ReceiverT] = "recv_read"
    /\ \E v \in ReadOutcomes(message) :
         /\ res' = RecvVal(ReceiverT, v)
         /\ rlog' = LogReturn(ReceiverT, v)
    /\ pc' = [pc EXCEPT ![ReceiverT] = "recv_exit"]
    /\ UNCHANGED <<prog, staticVars, lockVars, message, ready, in_use, live, endpoints, token, gen,
                   arg, calls, published, destroyed>>

\* receive, lines 44 and 47: self is dropped, by the unwinding or at return.
SafeReceiveExit ==
    /\ prog = "safe"
    /\ pc[ReceiverT] = "recv_exit"
    /\ SafeDrop("Receiver")
    /\ pc' = [pc EXCEPT ![ReceiverT] = "done"]
    /\ UNCHANGED <<prog, staticVars, lockVars, message, ready, in_use, token, gen,
                   arg, res, calls, published, rlog>>

\* The Receiver is dropped without a receive.
SafeReceiverUnused ==
    /\ prog = "safe"
    /\ Idle(ReceiverT)
    /\ "Receiver" \in endpoints
    /\ SafeDrop("Receiver")
    /\ pc' = [pc EXCEPT ![ReceiverT] = "done"]
    /\ UNCHANGED <<prog, staticVars, lockVars, message, ready, in_use, token, gen,
                   arg, res, calls, published, rlog>>

SafeNext ==
    \/ \E v \in Values : SafeSendWriteBegin(v)
    \/ SafeSendWriteEnd
    \/ SafeSendStore
    \/ SafeSendExit
    \/ SafeSenderUnused
    \/ SafeIsReady
    \/ SafeReceiveSwap
    \/ SafeReceiveRead
    \/ SafeReceiveExit
    \/ SafeReceiverUnused

\* --------------------------- chap-5-unarced-channel: borrowed Sender/Receiver
\* Channel::new(), lines 23-28; nothing is split off yet.
SplitNew ==
    /\ message = Uninit
    /\ ready = FALSE
    /\ in_use = FALSE
    /\ live = TRUE
    /\ endpoints = {}
    /\ token = FALSE
    /\ gen = 0

\* Channel::split(&mut self), lines 30-42, called by thread ReceiverT once no
\* borrow of the Channel is left.  *self = Self::new() drops the old Channel
\* (Drop for Channel, lines 45-51) and stores an empty one; the Sender keeps
\* thread::current() and is moved to thread SenderT (main, lines 77-80).
Split ==
    /\ prog = "split"
    /\ live
    /\ endpoints = {}
    /\ gen < MaxGen
    /\ destroyed' = IF ready
                      THEN Append(destroyed, [gen |-> gen, val |-> message])
                      ELSE destroyed
    /\ message' = Uninit
    /\ ready' = FALSE
    /\ endpoints' = {"Sender", "Receiver"}
    /\ gen' = gen + 1
    /\ pc' = [t \in Threads |-> "idle"]
    /\ calls' = 0
    /\ UNCHANGED <<prog, staticVars, lockVars, in_use, live, token, arg, res, published, rlog>>

\* Sender::send(self, message), line 55: the payload write begins.
SplitSendWriteBegin(v) ==
    /\ prog = "split"
    /\ Idle(SenderT)
    /\ "Sender" \in endpoints
    /\ message' = Torn
    /\ arg' = [arg EXCEPT ![SenderT] = v]
    /\ pc' = [pc EXCEPT ![SenderT] = "send_write2"]
    /\ UNCHANGED <<prog, staticVars, lockVars, ready, in_use, live, endpoints, token, gen,
                   res, calls, published, rlog, destroyed>>

\* send, line 55: the write completes.
SplitSendWriteEnd ==
    /\ prog = "split"
    /\ pc[SenderT] = "send_write2"
    /\ message' = arg[SenderT]
    /\ pc' = [pc EXCEPT ![SenderT] = "send_store"]
    /\ UNCHANGED <<prog, staticVars, lockVars, ready, in_use, live, endpoints, token, gen,
                   arg, res, calls, published, rlog, destroyed>>

\* send, line 56: channel.ready.store(true, Release).
SplitSendStore ==
    /\ prog = "split"
    /\ pc[SenderT] = "send_store"
    /\ ready' = TRUE
    /\ published' = Append(published, [gen |-> gen, val |-> arg[SenderT]])
    /\ pc' = [pc EXCEPT ![SenderT] = "send_unpark"]
    /\ UNCHANGED <<prog, staticVars, lockVars, message, in_use, live, endpoints, token, gen,
                   arg, res, calls, rlog, destroyed>>

\* A send that returns without unparking the receiving thread.
SplitSendUnpark_NoUnpark ==
    /\ prog = "split"
    /\ pc[SenderT] = "send_unpark"
    /\ endpoints' = endpoints \ {"Sender"}
    /\ pc' = [pc EXCEPT ![SenderT] = "done"]
    /\ res' = SendOk(SenderT)
    /\ UNCHANGED <<prog, staticVars, lockVars, message, ready, in_use, live, token, gen,
                   arg, calls, published, rlog, destroyed>>

\* send, line 57: receiving_thead.unpark() makes the token available; send
\* returns and the Sender is gone.
SplitSendUnpark ==
    /\ prog = "split"
    /\ pc[SenderT] = "send_unpark"
    /\ token' = TRUE
    /\ endpoints' = endpoints \ {"Sender"}
    /\ pc' = [pc EXCEPT ![SenderT] = "done"]
    /\ res' = SendOk(SenderT)
    /\ UNCHANGED <<prog, staticVars, lockVars, message, ready, in_use, live, gen,
                   arg, calls, published, rlog, destroyed>>

\* The Sender is dropped without a send.
SplitSenderUnused ==
    /\ prog = "split"
    /\ Idle(SenderT)
    /\ "Sender" \in endpoints
    /\ endpoints' = endpoints \ {"Sender"}
    /\ pc' = [pc EXCEPT ![SenderT] = "done"]
    /\ UNCHANGED <<prog, staticVars, lockVars, message, ready, in_use, live, token, gen,
                   arg, res, calls, published, rlog, destroyed>>

\* Receiver::is_ready(&self), line 63: channel.ready.load(Relaxed).
SplitIsReady ==
    /\ prog = "split"
    /\ Begin(ReceiverT)
    /\ "Receiver" \in endpoints
    /\ res' = Polled(ReceiverT, ready)
    /\ UNCHANGED <<prog, staticVars, lockVars, message, ready, in_use, live, endpoints, token, gen,
                   pc, arg, published, rlog, destroyed>>

\* Receiver::receive(self), line 67: ready.swap(false, Acquire); when it was
\* false the thread goes on to thread::park().
SplitReceiveSwap ==
    /\ prog = "split"
    /\ Idle(ReceiverT)
    /\ "Receiver" \in endpoints
    /\ ready' = FALSE
    /\ pc' = [pc EXCEPT ![ReceiverT] = IF ready THEN "recv_read" ELSE "recv_park"]
    /\ rlog' = LogBegin(ReceiverT, "pending")
    /\ UNCHANGED <<prog, staticVars, lockVars, message, in_use, live, endpoints, token, gen,
                   arg, res, calls, published, destroyed>>

\* receive, line 68: thread::park() returns when the token is available,
\* consuming it.
SplitPark ==
    /\ prog = "split"
    /\ pc[ReceiverT] = "recv_park"
    /\ token
    /\ token' = FALSE
    /\ pc' = [pc EXCEPT ![ReceiverT] = "recv_read"]
    /\ UNCHANGED <<prog, staticVars, lockVars, message, ready, in_use, live, endpoints, gen,
                   arg, res, calls, published, rlog, destroyed>>

\* receive, line 68: thread::park() may also return spuriously.
SplitParkSpurious ==
    /\ prog = "split"
    /\ pc[ReceiverT] = "recv_park"
    /\ pc' = [pc EXCEPT ![ReceiverT] = "recv_read"]
    /\ UNCHANGED <<prog, staticVars, lockVars, message, ready, in_use, live, endpoints, token, gen,
                   arg, res, calls, published, rlog, destroyed>>

\* receive, line 70: assume_init_read(); receive returns and the Receiver is
\* gone.
SplitReceiveRead ==
    /\ prog = "split"
    /\ pc[ReceiverT] = "recv_read"
    /\ \E v \in ReadOutcomes(message) :
         /\ res' = RecvVal(ReceiverT, v)
         /\ rlog' = LogReturn(ReceiverT, v)
    /\ endpoints' = endpoints \ {"Receiver"}
    /\ pc' = [pc EXCEPT ![ReceiverT] = "done"]
    /\ UNCHANGED <<prog, staticVars, lockVars, message, ready, in_use, live, token, gen,
                   arg, calls, published, destroyed>>

\* The Receiver is dropped without a receive.
SplitReceiverUnused ==
    /\ prog = "split"
    /\ Idle(ReceiverT)
    /\ "Receiver" \in endpoints
    /\ endpoints' = endpoints \ {"Receiver"}
    /\ pc' = [pc EXCEPT ![ReceiverT] = "done"]
    /\ UNCHANGED <<prog, staticVars, lockVars, message, ready, in_use, live, token, gen,
                   arg, res, calls, published, rlog, destroyed>>

\* Drop for Channel, lines 45-51, when the Channel goes out of scope.
SplitDrop ==
    /\ prog = "split"
    /\ live
    /\ endpoints = {}
    /\ live' = FALSE
    /\ destroyed' = IF ready
                      THEN Append(destroyed, [gen |-> gen, val |-> message])
                      ELSE destroyed
    /\ UNCHANGED <<prog, staticVars, lockVars, message, ready, in_use, endpoints, token, gen,
                   pc, arg, res, calls, published, rlog>>

SplitNext ==
    \/ Split
    \/ \E v \in Values : SplitSendWriteBegin(v)
    \/ SplitSendWriteEnd
    \/ SplitSendStore
    \/ SplitSendUnpark
    \/ SplitSenderUnused
    \/ SplitIsReady
    \/ SplitReceiveSwap
    \/ SplitPark
    \/ SplitParkSpurious
    \/ SplitReceiveRead
    \/ SplitReceiverUnused
    \/ SplitDrop

\* ------------------------------------------------------ spin-lock: SpinLock
\* What the threads of a spin-lock program do with the lock:
\*   "counter": each thread Iterations times { lock(); read the counter;
\*              write counter + 1; drop the guard };
\*   "push":    each thread once x.lock().push(t), as main's line 73;
\*   "main":     thread 1 x.lock().push(1); every other thread t takes one
\*              Guard and pushes t twice through it, as main's lines 72-79;
\*   "reentrant": as "push", but thread 1 calls lock() again while its Guard
\*              is still alive.
LockPrograms == {"counter", "push", "main", "reentrant"}

\* Number of lock()/drop rounds of thread t.
Rounds(t) == IF prog = "counter" THEN Iterations ELSE 1

\* Number of payload updates thread t makes through one Guard.
GuardOps(t) == IF prog = "main" /\ t # 1 THEN 2 ELSE 1

\* Thread t calls lock() again before its Guard is dropped.
Reenters(t) == prog = "reentrant" /\ t = 1

\* The payload a thread writes back after reading old.
Update(t, old) == IF prog = "counter" THEN old + 1 ELSE Append(old, t)

\* SpinLock::new(value), lines 24-29.
SpinLockNew ==
    /\ locked = FALSE
    /\ value = IF prog = "counter" THEN 0 ELSE <<>>
    /\ guards = {}
    /\ owner = NoThread
    /\ reg = [t \in Threads |-> IF prog = "counter" THEN 0 ELSE <<>>]
    /\ ops = [t \in Threads |-> 0]
    /\ rounds = [t \in Threads |-> 0]

\* A lock that loads locked where the code swaps it: the flag is tested and
\* not set.
LockSwap_NoStore(t) ==
    /\ prog \in LockPrograms
    /\ pc[t] = "lock"
    /\ IF locked
         THEN /\ pc' = [pc EXCEPT ![t] = "spin"]
              /\ UNCHANGED <<guards, owner>>
         ELSE /\ pc' = [pc EXCEPT ![t] = "read"]
              /\ guards' = guards \cup {t}
              /\ owner' = t
    /\ UNCHANGED <<prog, staticVars, chanVars, locked, value, reg, ops, rounds>>

\* A lock that swaps once and does not loop on the result.
LockSwap_NoLoop(t) ==
    /\ prog \in LockPrograms
    /\ pc[t] = "lock"
    /\ locked' = TRUE
    /\ pc' = [pc EXCEPT ![t] = "read"]
    /\ guards' = guards \cup {t}
    /\ owner' = IF locked THEN owner ELSE t
    /\ UNCHANGED <<prog, staticVars, chanVars, value, reg, ops, rounds>>

\* lock, line 32: one locked.swap(true, Acquire) of the while loop; when it
\* returns false the loop ends and the Guard is made (line 36).
LockSwap(t) ==
    /\ prog \in LockPrograms
    /\ pc[t] = "lock"
    /\ locked' = TRUE
    /\ IF locked
         THEN /\ pc' = [pc EXCEPT ![t] = "spin"]
              /\ UNCHANGED <<guards, owner>>
         ELSE /\ pc' = [pc EXCEPT ![t] = "read"]
              /\ guards' = guards \cup {t}
              /\ owner' = t
    /\ UNCHANGED <<prog, staticVars, chanVars, value, reg, ops, rounds>>

\* lock, line 34: std::hint::spin_loop(), then the loop tries again.
SpinLoop(t) ==
    /\ prog \in LockPrograms
    /\ pc[t] = "spin"
    /\ pc' = [pc EXCEPT ![t] = "lock"]
    /\ UNCHANGED <<prog, staticVars, chanVars, lockVars>>

\* Guard::deref, lines 47-51: the payload is read through the Guard.
GuardDeref(t) ==
    /\ prog \in LockPrograms
    /\ pc[t] = "read"
    /\ reg' = [reg EXCEPT ![t] = value]
    /\ pc' = [pc EXCEPT ![t] = "write"]
    /\ UNCHANGED <<prog, staticVars, chanVars, locked, value, guards, owner, ops, rounds>>

\* Guard::deref_mut, lines 55-60: the payload is written through the Guard.
GuardDerefMut(t) ==
    /\ prog \in LockPrograms
    /\ pc[t] = "write"
    /\ value' = Update(t, reg[t])
    /\ ops' = [ops EXCEPT ![t] = @ + 1]
    /\ pc' = [pc EXCEPT ![t] = IF ops[t] + 1 < GuardOps(t) THEN "read"
                              ELSE IF Reenters(t) THEN "lock" ELSE "unlock"]
    /\ UNCHANGED <<prog, staticVars, chanVars, locked, guards, owner, reg, rounds>>

\* A Guard whose Drop does not store false into locked.
GuardDrop_NoStore(t) ==
    /\ prog \in LockPrograms
    /\ pc[t] = "unlock"
    /\ guards' = guards \ {t}
    /\ ops' = [ops EXCEPT ![t] = 0]
    /\ rounds' = [rounds EXCEPT ![t] = @ + 1]
    /\ pc' = [pc EXCEPT ![t] = IF rounds[t] + 1 < Rounds(t) THEN "lock" ELSE "done"]
    /\ UNCHANGED <<prog, staticVars, chanVars, locked, value, owner, reg>>

\* Drop for Guard, lines 63-67: lock.locked.store(false, Release).
GuardDrop(t) ==
    /\ prog \in LockPrograms
    /\ pc[t] = "unlock"
    /\ locked' = FALSE
    /\ guards' = guards \ {t}
    /\ ops' = [ops EXCEPT ![t] = 0]
    /\ rounds' = [rounds EXCEPT ![t] = @ + 1]
    /\ pc' = [pc EXCEPT ![t] = IF rounds[t] + 1 < Rounds(t) THEN "lock" ELSE "done"]
    /\ UNCHANGED <<prog, staticVars, chanVars, value, owner, reg>>

LockNext ==
    \/ \E t \in Threads : LockSwap(t)
    \/ \E t \in Threads : SpinLoop(t)
    \/ \E t \in Threads : GuardDeref(t)
    \/ \E t \in Threads : GuardDerefMut(t)
    \/ \E t \in Threads : GuardDrop(t)

\* ------------------------------- the main programs of the guarded channels
\* "chanmain": main of chap-5-channels, lines 99-114;
\* "safemain": main of chap-5-safer-channel, lines 58-72.
\* Thread SenderT is the spawned thread, thread ReceiverT the main thread;
\* token is the park token of the main thread.
MainPrograms == {"chanmain", "safemain"}

\* Channel::new() / channel(), and let t = thread::current().
MainChannelNew ==
    /\ message = Uninit
    /\ ready = FALSE
    /\ in_use = FALSE
    /\ live = TRUE
    /\ endpoints = {}
    /\ token = FALSE
    /\ gen = 1

\* Where each thread of a main program starts: the spawned thread at its
\* send, the main thread at its is_ready().
MainStart(t) ==
    IF t = SenderT THEN (IF prog = "chanmain" THEN "m_send" ELSE "send_write")
    ELSE IF t = ReceiverT THEN "m_poll"
    ELSE "done"

\* chap-5-channels main, line 105: chan.send(..), the in_use swap of send
\* (line 78); nothing has used the channel, so it does not panic.
MainSendSwap(v) ==
    /\ prog = "chanmain"
    /\ pc[SenderT] = "m_send"
    /\ in_use' = TRUE
    /\ IF in_use
         THEN /\ res' = SendPanic(SenderT)
              /\ pc' = [pc EXCEPT ![SenderT] = "done"]
              /\ UNCHANGED arg
         ELSE /\ pc' = [pc EXCEPT ![SenderT] = "send_write"]
              /\ arg' = [arg EXCEPT ![SenderT] = v]
              /\ UNCHANGED res
    /\ UNCHANGED <<prog, staticVars, lockVars, message, ready, live, endpoints, token, gen,
                   calls, published, rlog, destroyed>>

\* send: the payload write begins (chap-5-channels line 82, safer-channel
\* line 33).  The Arc channel's send has no swap before it, so the value is
\* chosen here.
MainSendWriteBegin(v) ==
    /\ prog \in MainPrograms
    /\ pc[SenderT] = "send_write"
    /\ message' = Torn
    /\ arg' = [arg EXCEPT ![SenderT] = IF prog = "safemain" THEN v ELSE @]
    /\ pc' = [pc EXCEPT ![SenderT] = "send_write2"]
    /\ UNCHANGED <<prog, staticVars, lockVars, ready, in_use, live, endpoints, token, gen,
                   res, calls, published, rlog, destroyed>>

\* send: the write completes.
MainSendWriteEnd ==
    /\ prog \in MainPrograms
    /\ pc[SenderT] = "send_write2"
    /\ message' = arg[SenderT]
    /\ pc' = [pc EXCEPT ![SenderT] = "send_store"]
    /\ UNCHANGED <<prog, staticVars, lockVars, ready, in_use, live, endpoints, token, gen,
                   arg, res, calls, published, rlog, destroyed>>

\* send: ready.store(true, Release) (line 83, line 34); send returns.
MainSendStore ==
    /\ prog \in MainPrograms
    /\ pc[SenderT] = "send_store"
    /\ ready' = TRUE
    /\ published' = Append(published, [gen |-> gen, val |-> arg[SenderT]])
    /\ res' = SendOk(SenderT)
    /\ pc' = [pc EXCEPT ![SenderT] = "m_unpark"]
    /\ UNCHANGED <<prog, staticVars, lockVars, message, in_use, live, endpoints, token, gen,
                   arg, calls, rlog, destroyed>>

\* t.unpark() (line 106, line 65): the main thread's token is made available.
MainUnpark ==
    /\ prog \in MainPrograms
    /\ pc[SenderT] = "m_unpark"
    /\ token' = TRUE
    /\ pc' = [pc EXCEPT ![SenderT] = "done"]
    /\ UNCHANGED <<prog, staticVars, lockVars, message, ready, in_use, live, endpoints, gen,
                   arg, res, calls, published, rlog, destroyed>>

\* is_ready() in `if !chan.is_ready()` (line 109) and in
\* `while !receiver.is_ready()` (line 68): ready.load(Relaxed).
MainIsReady ==
    /\ prog \in MainPrograms
    /\ pc[ReceiverT] = "m_poll"
    /\ res' = Polled(ReceiverT, ready)
    /\ pc' = [pc EXCEPT ![ReceiverT] = IF ready THEN "m_recv" ELSE "m_park"]
    /\ UNCHANGED <<prog, staticVars, lockVars, message, ready, in_use, live, endpoints, token, gen,
                   arg, calls, published, rlog, destroyed>>

\* Where main goes when thread::park() returns: on to recieve after the if
\* (line 112), back to is_ready() in the while loop (line 68).
AfterPark == IF prog = "chanmain" THEN "m_recv" ELSE "m_poll"

\* thread::park() (line 110, line 69) returns by taking the token.
MainPark ==
    /\ prog \in MainPrograms
    /\ pc[ReceiverT] = "m_park"
    /\ token
    /\ token' = FALSE
    /\ pc' = [pc EXCEPT ![ReceiverT] = AfterPark]
    /\ UNCHANGED <<prog, staticVars, lockVars, message, ready, in_use, live, endpoints, gen,
                   arg, res, calls, published, rlog, destroyed>>

\* thread::park() may also return spuriously.
MainParkSpurious ==
    /\ prog \in MainPrograms
    /\ pc[ReceiverT] = "m_park"
    /\ pc' = [pc EXCEPT ![ReceiverT] = AfterPark]
    /\ UNCHANGED <<prog, staticVars, lockVars, chanVars>>

\* recieve / receive in the assert_eq! (line 112, line 71): the swap of
\* ready (line 91, line 43); it panics with "no message" when ready was
\* false, and the assert then never passes.
MainReceiveSwap ==
    /\ prog \in MainPrograms
    /\ pc[ReceiverT] = "m_recv"
    /\ ready' = FALSE
    /\ IF ~ready
         THEN /\ res' = RecvPanic(ReceiverT)
              /\ rlog' = LogBegin(ReceiverT, "panic")
              /\ pc' = [pc EXCEPT ![ReceiverT] = "panicked"]
         ELSE /\ pc' = [pc EXCEPT ![ReceiverT] = "recv_read"]
              /\ rlog' = LogBegin(ReceiverT, "pending")
              /\ UNCHANGED res
    /\ UNCHANGED <<prog, staticVars, lockVars, message, in_use, live, endpoints, token, gen,
                   arg, calls, published, destroyed>>

\* recieve / receive: assume_init_read() (line 95, line 46); main ends.
MainReceiveRead ==
    /\ prog \in MainPrograms
    /\ pc[ReceiverT] = "recv_read"
    /\ \E v \in ReadOutcomes(message) :
         /\ res' = RecvVal(ReceiverT, v)
         /\ rlog' = LogReturn(ReceiverT, v)
    /\ pc' = [pc EXCEPT ![ReceiverT] = "done"]
    /\ UNCHANGED <<prog, staticVars, lockVars, message, ready, in_use, live, endpoints, token, gen,
                   arg, calls, published, destroyed>>

MainNext ==
    \/ \E v \in Values : MainSendSwap(v)
    \/ \E v \in Values : MainSendWriteBegin(v)
    \/ MainSendWriteEnd
    \/ MainSendStore
    \/ MainUnpark
    \/ MainIsReady
    \/ MainPark
    \/ MainParkSpurious
    \/ MainReceiveSwap
    \/ MainReceiveRead

\* ------------------------------------ chap-2_p2: allocate_new_id_updated
\* "ids": every thread calls allocate_new_id_updated() MaxAllocs times, as
\* the two loops of main, lines 88-100.
\* NEW_ID is a static: calls made earlier have brought it to its value.
IdsNew ==
    /\ NEW_ID \in {0, IdLimit - MaxAllocs}
    /\ id = [t \in Threads |-> 0]
    /\ allocs = [t \in Threads |-> 0]
    /\ issued = <<>>

\* line 72: let mut id = NEW_ID.load(Relaxed).
AllocLoad(t) ==
    /\ prog = "ids"
    /\ pc[t] = "alloc_load"
    /\ id' = [id EXCEPT ![t] = NEW_ID]
    /\ pc' = [pc EXCEPT ![t] = "alloc_assert"]
    /\ UNCHANGED <<prog, chanVars, lockVars, NEW_ID, allocs, issued,
                   LOCKED, DATA, wins, A, B, S, seen, local>>

\* line 75: assert!(id < 1000, ..); the thread panics when it fails.
AllocAssert(t) ==
    /\ prog = "ids"
    /\ pc[t] = "alloc_assert"
    /\ pc' = [pc EXCEPT ![t] = IF id[t] < IdLimit THEN "alloc_cas" ELSE "panicked"]
    /\ UNCHANGED <<prog, chanVars, lockVars, staticVars>>

\* Where a thread goes when its call has returned.
AfterAlloc(t) == IF allocs[t] + 1 < MaxAllocs THEN "alloc_load" ELSE "done"

\* An allocation that stores id + 1 into NEW_ID whatever NEW_ID holds.
AllocCompareExchange_Store(t) ==
    /\ prog = "ids"
    /\ pc[t] = "alloc_cas"
    /\ NEW_ID' = id[t] + 1
    /\ issued' = Append(issued, [thr |-> t, id |-> id[t]])
    /\ allocs' = [allocs EXCEPT ![t] = @ + 1]
    /\ pc' = [pc EXCEPT ![t] = AfterAlloc(t)]
    /\ UNCHANGED <<prog, chanVars, lockVars, id,
                   LOCKED, DATA, wins, A, B, S, seen, local>>

\* lines 76-79: NEW_ID.compare_exchange_weak(id, id + 1, Relaxed, Relaxed).
\* Ok: the call returns id.  Err(v): id = v and the loop goes round; a weak
\* compare-exchange may also fail when NEW_ID equals id.  id + 1 is computed
\* after the assert, so it is at most IdLimit and the u32 does not wrap.
AllocCompareExchange(t) ==
    /\ prog = "ids"
    /\ pc[t] = "alloc_cas"
    /\ \/ /\ NEW_ID = id[t]
          /\ NEW_ID' = id[t] + 1
          /\ issued' = Append(issued, [thr |-> t, id |-> id[t]])
          /\ allocs' = [allocs EXCEPT ![t] = @ + 1]
          /\ pc' = [pc EXCEPT ![t] = AfterAlloc(t)]
          /\ UNCHANGED id
       \/ /\ id' = [id EXCEPT ![t] = NEW_ID]
          /\ pc' = [pc EXCEPT ![t] = "alloc_assert"]
          /\ UNCHANGED <<NEW_ID, issued, allocs>>
    /\ UNCHANGED <<prog, chanVars, lockVars,
                   LOCKED, DATA, wins, A, B, S, seen, local>>

IdsNext ==
    \/ \E t \in Threads : AllocLoad(t)
    \/ \E t \in Threads : AllocAssert(t)
    \/ \E t \in Threads : AllocCompareExchange(t)

\* ------------------------------------------------ chap-3_p2: f (try-lock)
\* "trylock": every thread runs f() once, as changed_main, lines 25-31.
TryLockNew ==
    /\ LOCKED = FALSE
    /\ DATA = <<>>
    /\ wins = {}

\* A try-lock that takes the lock whether or not LOCKED was false.
FCompareExchange_NoCompare(t) ==
    /\ prog = "trylock"
    /\ pc[t] = "f_cas"
    /\ LOCKED' = TRUE
    /\ wins' = wins \cup {t}
    /\ pc' = [pc EXCEPT ![t] = "push_read"]
    /\ UNCHANGED <<prog, chanVars, lockVars, NEW_ID, id, allocs, issued,
                   DATA, A, B, S, seen, local>>

\* f, lines 15-17: LOCKED.compare_exchange(false, true, Acquire, Relaxed);
\* when it fails f returns.
FCompareExchange(t) ==
    /\ prog = "trylock"
    /\ pc[t] = "f_cas"
    /\ IF LOCKED = FALSE
         THEN /\ LOCKED' = TRUE
              /\ wins' = wins \cup {t}
              /\ pc' = [pc EXCEPT ![t] = "push_read"]
         ELSE /\ pc' = [pc EXCEPT ![t] = "done"]
              /\ UNCHANGED <<LOCKED, wins>>
    /\ UNCHANGED <<prog, chanVars, lockVars, NEW_ID, id, allocs, issued,
                   DATA, A, B, S, seen, local>>

\* f, line 20: DATA.push('!') reads the String ...
FPushRead(t) ==
    /\ prog = "trylock"
    /\ pc[t] = "push_read"
    /\ local' = [local EXCEPT ![t] = DATA]
    /\ pc' = [pc EXCEPT ![t] = "push_write"]
    /\ UNCHANGED <<prog, chanVars, lockVars, NEW_ID, id, allocs, issued,
                   LOCKED, DATA, wins, A, B, S, seen>>

\* ... and writes it back one character longer.
FPushWrite(t) ==
    /\ prog = "trylock"
    /\ pc[t] = "push_write"
    /\ DATA' = Append(local[t], "!")
    /\ pc' = [pc EXCEPT ![t] = "f_store"]
    /\ UNCHANGED <<prog, chanVars, lockVars, NEW_ID, id, allocs, issued,
                   LOCKED, wins, A, B, S, seen, local>>

\* f, line 21: LOCKED.store(false, Release).
FStore(t) ==
    /\ prog = "trylock"
    /\ pc[t] = "f_store"
    /\ LOCKED' = FALSE
    /\ pc' = [pc EXCEPT ![t] = "done"]
    /\ UNCHANGED <<prog, chanVars, lockVars, NEW_ID, id, allocs, issued,
                   DATA, wins, A, B, S, seen, local>>

TryLockNext ==
    \/ \E t \in Threads : FCompareExchange(t)
    \/ \E t \in Threads : FPushRead(t)
    \/ \E t \in Threads : FPushWrite(t)
    \/ \E t \in Threads : FStore(t)

\* --------------------------------------------- chap-3_p2: main (SeqCst)
\* "seqcst": main, lines 66-83.  Thread ThreadA is a, thread ThreadB is b.
\* SeqCst operations happen in one total order: each is one step.
ThreadA == 1
ThreadB == 2

SeqCstNew ==
    /\ A = FALSE
    /\ B = FALSE
    /\ S = <<>>
    /\ seen = [t \in Threads |-> FALSE]

\* Where the threads of main start: a and b at their store.
SeqCstStart(t) == IF t \in {ThreadA, ThreadB} THEN "flag_store" ELSE "done"

\* A thread that does not store its flag before it loads the other.
FlagStore_Skip(t) ==
    /\ prog = "seqcst"
    /\ pc[t] = "flag_store"
    /\ pc' = [pc EXCEPT ![t] = "flag_load"]
    /\ UNCHANGED <<prog, chanVars, lockVars, staticVars>>

\* line 68: A.store(true, SeqCst); line 75: B.store(true, SeqCst).
FlagStore(t) ==
    /\ prog = "seqcst"
    /\ pc[t] = "flag_store"
    /\ A' = IF t = ThreadA THEN TRUE ELSE A
    /\ B' = IF t = ThreadB THEN TRUE ELSE B
    /\ pc' = [pc EXCEPT ![t] = "flag_load"]
    /\ UNCHANGED <<prog, chanVars, lockVars, NEW_ID, id, allocs, issued,
                   LOCKED, DATA, wins, S, seen, local>>

\* line 69: if !B.load(SeqCst); line 76: if !A.load(SeqCst).
FlagLoad(t) ==
    /\ prog = "seqcst"
    /\ pc[t] = "flag_load"
    /\ seen' = [seen EXCEPT ![t] = IF t = ThreadA THEN B ELSE A]
    /\ pc' = [pc EXCEPT ![t] = IF (IF t = ThreadA THEN B ELSE A) THEN "done" ELSE "push_read"]
    /\ UNCHANGED <<prog, chanVars, lockVars, NEW_ID, id, allocs, issued,
                   LOCKED, DATA, wins, A, B, S, local>>

\* lines 70 and 77: S.push('!') reads the String ...
FlagPushRead(t) ==
    /\ prog = "seqcst"
    /\ pc[t] = "push_read"
    /\ local' = [local EXCEPT ![t] = S]
    /\ pc' = [pc EXCEPT ![t] = "push_write"]
    /\ UNCHANGED <<prog, chanVars, lockVars, NEW_ID, id, allocs, issued,
                   LOCKED, DATA, wins, A, B, S, seen>>

\* ... and writes it back one character longer.
FlagPushWrite(t) ==
    /\ prog = "seqcst"
    /\ pc[t] = "push_write"
    /\ S' = Append(local[t], "!")
    /\ pc' = [pc EXCEPT ![t] = "done"]
    /\ UNCHANGED <<prog, chanVars, lockVars, NEW_ID, id, allocs, issued,
                   LOCKED, DATA, wins, A, B, seen, local>>

SeqCstNext ==
    \/ \E t \in Threads : FlagStore(t)
    \/ \E t \in Threads : FlagLoad(t)
    \/ \E t \in Threads : FlagPushRead(t)
    \/ \E t \in Threads : FlagPushWrite(t)

\* The programs on statics.
StaticPrograms == {"ids", "trylock", "seqcst"}

\* Where thread t of such a program starts.
StaticStart(t) ==
    IF prog = "ids" THEN "alloc_load"
    ELSE IF prog = "trylock" THEN "f_cas"
    ELSE SeqCstStart(t)

\* ------------------------------------------------------------ the system
ChannelPrograms == {"chan", "safe", "split"}
Programs == ChannelPrograms \cup LockPrograms \cup MainPrograms \cup StaticPrograms

\* The Channel of a spin-lock program: there is none.
NoChannel ==
    /\ message = Uninit
    /\ ready = FALSE
    /\ in_use = FALSE
    /\ live = FALSE
    /\ endpoints = {}
    /\ token = FALSE
    /\ gen = 0

\* The SpinLock of a channel program: there is none.
NoSpinLock ==
    /\ locked = FALSE
    /\ value = 0
    /\ guards = {}
    /\ owner = NoThread
    /\ reg = [t \in Threads |-> 0]
    /\ ops = [t \in Threads |-> 0]
    /\ rounds = [t \in Threads |-> 0]

\* The statics of the programs that do not run: untouched.
NoIds ==
    /\ NEW_ID = 0
    /\ id = [t \in Threads |-> 0]
    /\ allocs = [t \in Threads |-> 0]
    /\ issued = <<>>

NoTryLock ==
    /\ LOCKED = FALSE
    /\ DATA = <<>>
    /\ wins = {}

NoSeqCst ==
    /\ A = FALSE
    /\ B = FALSE
    /\ S = <<>>
    /\ seen = [t \in Threads |-> FALSE]

Init ==
    /\ prog \in Programs
    /\ prog = "chan" => ChanNew
    /\ prog = "safe" => SafeChannel
    /\ prog = "split" => SplitNew
    /\ prog \in LockPrograms => NoChannel /\ SpinLockNew
    /\ prog \in MainPrograms => MainChannelNew
    /\ prog \in StaticPrograms => NoChannel
    /\ prog \notin LockPrograms => NoSpinLock
    /\ IF prog = "ids" THEN IdsNew ELSE NoIds
    /\ IF prog = "trylock" THEN TryLockNew ELSE NoTryLock
    /\ IF prog = "seqcst" THEN SeqCstNew ELSE NoSeqCst
    /\ local = [t \in Threads |-> <<>>]
    /\ pc = [t \in Threads |-> IF prog \in LockPrograms THEN "lock"
                              ELSE IF prog \in MainPrograms THEN MainStart(t)
                              ELSE IF prog \in StaticPrograms THEN StaticStart(t)
                              ELSE "idle"]
    /\ arg = [t \in Threads |-> Uninit]
    /\ res = NoRes
    /\ calls = 0
    /\ published = <<>>
    /\ rlog = <<>>
    /\ destroyed = <<>>

Next ==
    \/ ChanNext
    \/ SafeNext
    \/ SplitNext
    \/ LockNext
    \/ MainNext
    \/ IdsNext
    \/ TryLockNext
    \/ SeqCstNext

Spec == Init /\ [][Next]_vars

\* The same programs with a thread::park() that never returns spuriously:
\* it returns only by taking the token an unpark() left.
NextNoSpurious ==
    \/ ChanNext
    \/ SafeNext
    \/ Split
    \/ \E v \in Values : SplitSendWriteBegin(v)
    \/ SplitSendWriteEnd
    \/ SplitSendStore
    \/ SplitSendUnpark
    \/ SplitSenderUnused
    \/ SplitIsReady
    \/ SplitReceiveSwap
    \/ SplitPark
    \/ SplitReceiveRead
    \/ SplitReceiverUnused
    \/ SplitDrop
    \/ LockNext
    \/ \E v \in Values : MainSendSwap(v)
    \/ \E v \in Values : MainSendWriteBegin(v)
    \/ MainSendWriteEnd
    \/ MainSendStore
    \/ MainUnpark
    \/ MainIsReady
    \/ MainPark
    \/ MainReceiveSwap
    \/ MainReceiveRead
    \/ IdsNext
    \/ TryLockNext
    \/ SeqCstNext

SpecNoSpurious == Init /\ [][NextNoSpurious]_vars

\* The steps a thread makes inside a call on the borrowed-split channel: a
\* thread that is running keeps being scheduled.
SplitSenderStep == SplitSendWriteEnd \/ SplitSendStore \/ SplitSendUnpark
SplitReceiverStep == SplitPark \/ SplitReceiveRead

\* The borrowed-split program alone, both threads weakly fair.  Whether a
\* call is made at all, and a spurious return of park, are left unfair.
SplitInit == Init /\ prog = "split"

SpecSplitFair ==
    /\ SplitInit
    /\ [][SplitNext]_vars
    /\ WF_vars(SplitSenderStep)
    /\ WF_vars(SplitReceiverStep)

\* The steps of thread t of a spin-lock program.
LockThreadStep(t) ==
    LockSwap(t) \/ SpinLoop(t) \/ GuardDeref(t) \/ GuardDerefMut(t) \/ GuardDrop(t)

\* The spin-lock programs without re-entrant acquisition, every thread
\* weakly fair.
FairLockInit == Init /\ prog \in LockPrograms /\ prog # "reentrant"

SpecLockFair ==
    /\ FairLockInit
    /\ [][LockNext]_vars
    /\ \A t \in Threads : WF_vars(LockThreadStep(t))

\* The steps of the spawned thread and of the main thread of a main
\* program; a spurious return of park is not one the scheduler owes.
MainSpawnedStep ==
    \/ \E v \in Values : MainSendSwap(v)
    \/ \E v \in Values : MainSendWriteBegin(v)
    \/ MainSendWriteEnd
    \/ MainSendStore
    \/ MainUnpark
MainThreadStep == MainIsReady \/ MainPark \/ MainReceiveSwap \/ MainReceiveRead

\* The two main programs alone, both threads weakly fair.
MainInit == Init /\ prog \in MainPrograms

SpecMainFair ==
    /\ MainInit
    /\ [][MainNext]_vars
    /\ WF_vars(MainSpawnedStep)
    /\ WF_vars(MainThreadStep)

\* ---------------------------------------------------------------- claims
\* The receive calls that began in generation g, in the order they began,
\* and the sends of generation g whose publish has run.
ReceivesOf(g) == SelectSeq(rlog, LAMBDA e : e.gen = g)
PublishedOf(g) == SelectSeq(published, LAMBDA e : e.gen = g)
Returned(g) == {i \in DOMAIN ReceivesOf(g) : ReceivesOf(g)[i].out = "val"}
Gens == 1..MaxGen
AllDone == \A t \in Threads : pc[t] = "done"
GuardedPrograms == {"chan", "safe"}

\* C1: in every channel variant, a receive call that begins after a send(v)
\* has published, and before which no receive took the message, does not
\* fail and returns exactly v; and at most one receive call per channel
\* generation returns a value.
C1_RoundTrip ==
    prog \in ChannelPrograms =>
      \A g \in Gens :
        LET r == ReceivesOf(g)
            p == PublishedOf(g)
        IN  /\ \A i \in DOMAIN r :
                 (r[i].after /\ \A j \in 1..(i - 1) : r[j].out = "panic")
                   => /\ r[i].out \in {"pending", "val"}
                      /\ r[i].out = "val" => r[i].val = p[1].val
            /\ Cardinality(Returned(g)) <= 1

\* C1 witness: on the in_use-flag channel the value 2 was sent, one recieve
\* returned it and a later recieve failed.
C1_Witness ==
    /\ prog = "chan"
    /\ Len(rlog) = 2
    /\ rlog[1].after /\ rlog[1].out = "val" /\ rlog[1].val = 2
    /\ published[1].val = 2
    /\ rlog[2].out = "panic"

\* C2: at most one live Guard exists per SpinLock, a live Guard implies
\* locked, and a thread about to read or write the payload does so while
\* locked is true and is the thread whose swap last took the lock.
C2_MutualExclusion ==
    prog \in LockPrograms =>
      /\ Cardinality(guards) <= 1
      /\ guards # {} => locked
      /\ \A t \in Threads :
           pc[t] \in {"read", "write"} => locked /\ owner = t /\ t \in guards

\* C2 witness: one thread is between its read and its write of the payload
\* while another, which has already held the lock once, spins on it.
C2_Witness ==
    /\ prog = "counter"
    /\ \E t, u \in Threads :
         /\ t # u
         /\ pc[t] = "write"
         /\ pc[u] = "spin"
         /\ rounds[u] >= 1

\* C3: when every thread has finished its Iterations rounds of lock, read,
\* write counter + 1, drop, the counter is NumThreads * Iterations.
C3_NoLostUpdates ==
    (prog = "counter" /\ AllDone) => value = NumThreads * Iterations

\* C3 witness: the counter program has finished, every thread having made
\* all its rounds.
C3_Witness ==
    /\ prog = "counter"
    /\ AllDone
    /\ \A t \in Threads : rounds[t] = Iterations
    /\ value > 1

\* A send has already passed its in_use swap on the chap-5-channels Channel.
ChanUsed ==
    \/ message # Uninit
    \/ \E t \in Threads : pc[t] \in {"send_write", "send_write2", "send_store"}

\* C4: on the in_use-flag channel a send begun on an already-used channel
\* panics and leaves the message slot and the ready flag as they were, and
\* the slot, once its value is published, keeps that value.
C4_SecondSendFails ==
    /\ [][(prog = "chan" /\ ChanUsed /\ \E t \in Threads, v \in Values : ChanSendSwap(t, v))
            => /\ res'.op = "send" /\ res'.out = "panic"
               /\ message' = message
               /\ ready' = ready
               /\ pc' = pc]_vars
    /\ [](prog = "chan" /\ published # <<>>
            => Len(published) = 1 /\ message = published[1].val)

\* C4 witness: a send has just failed on a channel whose value was already
\* received, and the slot still holds the bits of the first value.
C4_Witness ==
    /\ prog = "chan"
    /\ res.op = "send" /\ res.out = "panic"
    /\ ~ready
    /\ \E i \in DOMAIN rlog : rlog[i].out = "val"
    /\ message = published[1].val

\* C5: on the guarded channels a receive call that begins before any send
\* has published panics, and a receive call that returns a value returns the
\* value that was sent (never a torn or uninitialized slot).
C5_ReceiveBeforeSendFails ==
    prog \in GuardedPrograms =>
      \A i \in DOMAIN rlog :
        /\ ~rlog[i].after => rlog[i].out = "panic"
        /\ rlog[i].out = "val" => published # <<>> /\ rlog[i].val = published[1].val

\* C5 witness: a recieve has just panicked while a concurrent send had
\* written the payload and not yet stored ready.
C5_Witness ==
    /\ prog = "chan"
    /\ res.op = "receive" /\ res.out = "panic"
    /\ published = <<>>
    /\ \E t \in Threads : pc[t] = "send_store"
    /\ message \in Values

\* A step that is one is_ready() call.
PollStep == calls' = calls + 1 /\ pc' = pc /\ res'.op = "is_ready"

\* A receive call of the current generation has taken the message.
Taken == \E i \in DOMAIN rlog : rlog[i].gen = gen /\ rlog[i].out \in {"pending", "val"}

\* C6 as stated: every is_ready() poll returns false before the matching
\* send's publish and true at every poll after it.
C6_AsStated ==
    [][(prog \in ChannelPrograms /\ PollStep)
         => (res'.out = "true" <=> PublishedOf(gen) # <<>>)]_vars

\* C6 amended: every is_ready() poll returns true exactly when the matching
\* send has published and no receive has since taken the message; a poll
\* that returns true finds the payload fully written.
C6_IsReady ==
    [][(prog \in ChannelPrograms /\ PollStep)
         => /\ res'.out = "true" <=> (PublishedOf(gen) # <<>> /\ ~Taken)
            /\ res'.out = "true" => message \in Values]_vars

\* C6 witness: several polls were made on the in_use-flag channel, the last
\* one while a send had published and nothing was received: it returned true.
C6_Witness ==
    /\ prog = "chan"
    /\ calls >= 3
    /\ res.op = "is_ready" /\ res.out = "true"
    /\ published # <<>>
    /\ rlog = <<>>

\* C7: on the guarded channels nothing is destroyed before the Channel is
\* dropped; once it is dropped, the number of values its Drop destroyed is
\* the number of published sends minus the number of values receive
\* returned, each destroyed value is the sent one, and no value is both
\* returned and destroyed.
C7_DropNoLeakNoDoubleFree ==
    prog \in GuardedPrograms =>
      /\ live => destroyed = <<>>
      /\ ~live => Len(destroyed) = Len(published) - Cardinality(Returned(1))
      /\ \A i \in DOMAIN destroyed : destroyed[i].val = published[1].val
      /\ ~(destroyed # <<>> /\ Returned(1) # {})

\* C7 witness: both Arc endpoints are gone after a send of 2 that nobody
\* received, and the Drop destroyed that value.
C7_Witness ==
    /\ prog = "safe"
    /\ ~live
    /\ published # <<>>
    /\ destroyed = <<[gen |-> 1, val |-> 2]>>

\* C8: on the in_use-flag channel, once a recieve call has taken the value,
\* every recieve call begun later panics.
C8_SecondReceiveFails ==
    prog = "chan" =>
      \A i, j \in DOMAIN rlog :
        (i < j /\ rlog[i].out \in {"pending", "val"}) => rlog[j].out = "panic"

\* C8 witness: four calls were made on the channel; a recieve returned the
\* value and the last call, a second recieve, panicked.
C8_Witness ==
    /\ prog = "chan"
    /\ Len(rlog) >= 2
    /\ rlog[1].out = "val"
    /\ rlog[2].out = "panic"
    /\ calls = 4
    /\ res.op = "receive" /\ res.out = "panic"

\* The integers held by a sequence.
Elements(q) == {q[i] : i \in DOMAIN q}

\* C9: when every thread of the push program has locked once, pushed its own
\* integer and finished, the sequence has NumThreads elements and holds
\* every pushed integer: a permutation of the pushed values.
C9_PushPermutation ==
    (prog = "push" /\ AllDone) => Len(value) = NumThreads /\ Elements(value) = Threads

\* C9 witness: the push program has finished and the last thread's integer
\* came first in the sequence.
C9_Witness ==
    /\ prog = "push"
    /\ AllDone
    /\ Len(value) = NumThreads
    /\ value[1] = NumThreads

\* C10: a borrowed-split receive() that returns does so only after the send
\* of its generation has published, and returns exactly the sent value.
C10_ReceiveWaitsForSend ==
    prog = "split" =>
      \A i \in DOMAIN rlog :
        rlog[i].out = "val"
          => /\ PublishedOf(rlog[i].gen) # <<>>
             /\ rlog[i].val = PublishedOf(rlog[i].gen)[1].val

\* C11: in every channel variant a receive call that reads the payload (and
\* returns it) is one whose own ready.swap(false, Acquire) returned true.
C11_ReadAfterReadySeen ==
    prog \in ChannelPrograms =>
      \A i \in DOMAIN rlog : rlog[i].out = "val" => rlog[i].saw

\* C11 witness: a borrowed-split receive returned after its swap had
\* returned true.
C11_Witness ==
    /\ prog = "split"
    /\ \E i \in DOMAIN rlog : rlog[i].out = "val" /\ rlog[i].saw

\* The sum of f over the threads of set T.
RECURSIVE SumOver(_, _)
SumOver(f, T) ==
    IF T = {} THEN 0
    ELSE LET t == CHOOSE u \in T : TRUE
         IN  f[t] + SumOver(f, T \ {t})

\* The payload updates made so far through Guards, dropped or live.
UpdatesMade == SumOver([t \in Threads |-> rounds[t] * GuardOps(t) + ops[t]], Threads)

\* C12: locked is true exactly when a live Guard exists; the step that drops
\* a Guard leaves locked false; a lock() swap made while locked is false
\* succeeds, whichever thread makes it; and a thread that has taken the lock
\* reads a counter that holds every update made through earlier Guards.
C12_DropReleases ==
    /\ [](prog \in LockPrograms => (locked <=> guards # {}))
    /\ [][\A t \in Threads :
            /\ (prog \in LockPrograms /\ t \in guards /\ t \notin guards') => ~locked'
            /\ (prog \in LockPrograms /\ ~locked /\ LockSwap(t)) => t \in guards']_vars
    /\ [](prog = "counter" =>
            \A t \in Threads : pc[t] = "write" => reg[t] = UpdatesMade)

\* C12 witness: a thread has taken the lock after another thread dropped
\* its Guard, and has read the counter that thread wrote.
C12_Witness ==
    /\ prog = "counter"
    /\ \E t, u \in Threads :
         /\ t # u
         /\ rounds[u] >= 1
         /\ rounds[t] = 0
         /\ pc[t] = "write"
         /\ reg[t] = rounds[u]

\* Thread t is inside a lock() call made while it holds a live Guard.
InReentrantLock(t) == prog \in LockPrograms /\ t \in guards /\ pc[t] \in {"lock", "spin"}

\* C13: a thread that calls lock() while it still holds a live Guard of the
\* same SpinLock stays inside that lock() call at every later step, its
\* swaps returning true, and locked is true then and stays true.
C13_ReentrantNeverReturns ==
    /\ [](\A t \in Threads : InReentrantLock(t) => locked)
    /\ [][\A t \in Threads :
            InReentrantLock(t) => InReentrantLock(t)' /\ locked']_vars

\* C13 witness: thread 1 has pushed through its Guard, called lock() again
\* and had a swap return true; the other threads spin on the same lock.
C13_Witness ==
    /\ prog = "reentrant"
    /\ InReentrantLock(1)
    /\ pc[1] = "spin"
    /\ value = <<1>>
    /\ \A t \in Threads \ {1} : pc[t] = "spin"

\* The positions of the payload sequence written by thread t.
PushedBy(t) == {i \in DOMAIN value : value[i] = t}

\* C15: in the program of main, when all threads have finished, the pushes
\* made through one Guard are next to each other in the sequence, every
\* Guard's pushes are all there, and with two threads the sequence is
\* [1,2,2] or [2,2,1].
C15_CriticalSectionAtomic ==
    (prog = "main" /\ AllDone) =>
      /\ \A t \in Threads :
           /\ Cardinality(PushedBy(t)) = GuardOps(t)
           /\ \A i, k \in PushedBy(t) : \A j \in i..k : j \in PushedBy(t)
      /\ Len(value) = 1 + 2 * (NumThreads - 1)
      /\ NumThreads = 2 => value \in {<<1, 2, 2>>, <<2, 2, 1>>}
      /\ value # <<2, 1, 2>>

\* C15 witness: main has finished and the thread that pushes twice got the
\* lock first, thread 1 having spun while it held the Guard.
C15_Witness ==
    /\ prog = "main"
    /\ AllDone
    /\ value[1] = 2 /\ value[2] = 2
    /\ value[Len(value)] = 1

\* A value was published by the send of a generation before g.
SentBefore(g, v) == \E j \in DOMAIN published : published[j].gen < g /\ published[j].val = v

\* A value was published by the send of generation g.
SentIn(g, v) == \E j \in DOMAIN published : published[j].gen = g /\ published[j].val = v

\* C14: the step that runs split() leaves ready false and the slot empty,
\* whatever the storage held; an is_ready() of the new generation made before
\* this generation's send has published returns false; and a receive of the
\* new generation never returns a value that only an earlier generation sent.
C14_SplitResets ==
    /\ [][(prog = "split" /\ gen' # gen) => (~ready' /\ message' = Uninit)]_vars
    /\ [][(prog = "split" /\ PollStep /\ PublishedOf(gen) = <<>>)
            => res'.out = "false"]_vars
    /\ [](prog = "split" =>
            \A i \in DOMAIN rlog :
              (rlog[i].out = "val" /\ SentBefore(rlog[i].gen, rlog[i].val))
                => SentIn(rlog[i].gen, rlog[i].val))

\* C14 witness: the storage, used by a first generation whose message was
\* received, was split again and the second generation's receive returned.
C14_Witness ==
    /\ prog = "split"
    /\ gen = 2
    /\ \E i, k \in DOMAIN rlog :
         /\ rlog[i].gen = 1 /\ rlog[i].out = "val"
         /\ rlog[k].gen = 2 /\ rlog[k].out = "val"

\* A step in which a send or recieve call of the in_use-flag channel begins
\* and reports failure.
FailStep == calls' = calls + 1 /\ pc' = pc /\ res'.out = "panic"

\* C16: on the in_use-flag channel the step of a send or recieve that
\* reports failure leaves the payload, ready and in_use as they were; and
\* when no call is in progress every call made so far has either failed or
\* fully completed: in_use is set exactly when the one send has published
\* its fully written payload, the slot is untouched otherwise, and no
\* recieve is left half done.
C16_FailureNoPartialEffect ==
    /\ [][(prog = "chan" /\ FailStep) => UNCHANGED <<message, ready, in_use>>]_vars
    /\ []((prog = "chan" /\ \A t \in Threads : Idle(t)) =>
            /\ in_use <=> published # <<>>
            /\ published # <<>> => Len(published) = 1 /\ message = published[1].val
            /\ published = <<>> => message = Uninit /\ ~ready
            /\ ready <=> (published # <<>> /\ ~Taken)
            /\ \A i \in DOMAIN rlog : rlog[i].out # "pending")

\* C16 witness: a recieve failed before the send, the send completed, and
\* a second send has just failed, leaving the published message in place.
C16_Witness ==
    /\ prog = "chan"
    /\ \A t \in Threads : Idle(t)
    /\ Len(rlog) = 1 /\ rlog[1].out = "panic"
    /\ res.op = "send" /\ res.out = "panic"
    /\ ready /\ in_use /\ message \in Values

\* A step in which a pending receive call reads the payload and returns.
ReturnStep ==
    \E i \in DOMAIN rlog :
      rlog[i].out = "pending" /\ i \in DOMAIN rlog' /\ rlog'[i].out = "val"

\* C17: in every channel variant, at the step where receive() reads the
\* payload out and returns, ready has already been cleared and is false
\* when the call returns.
C17_ReceiveClearsReady ==
    [][(prog \in ChannelPrograms /\ ReturnStep) => (~ready /\ ~ready')]_vars

\* C17 witness: a borrowed-split receive whose swap found ready true has
\* returned the message, and ready is false.
C17_Witness ==
    /\ prog = "split"
    /\ res.op = "receive" /\ res.out = "val"
    /\ rlog[Len(rlog)].saw /\ rlog[Len(rlog)].out = "val"
    /\ ~ready

\* The threads of the in_use-flag channel that are inside send, past the
\* in_use swap, and the recieve calls that have got past the ready swap.
Writers == {t \in Threads : pc[t] \in {"send_write", "send_write2", "send_store"}}
Readers == {i \in DOMAIN rlog : rlog[i].out \in {"pending", "val"}}

\* C18: on the in_use-flag channel, with send and recieve calls of several
\* threads running together, the sends that write or have written the
\* payload are exactly one once any send has begun, every other send
\* reports failure without writing, and at most one recieve reads the
\* payload.
C18_SingleWriterSingleReader ==
    /\ [](prog = "chan" =>
            /\ Cardinality(Writers) + Len(published) <= 1
            /\ in_use <=> Cardinality(Writers) + Len(published) = 1
            /\ Cardinality(Readers) <= 1)
    /\ [][(prog = "chan" /\ FailStep /\ res'.op = "send")
            => (Writers' = Writers /\ message' = message
                /\ Cardinality(Writers) + Len(published) = 1)]_vars

\* C18 witness: while one thread is in the middle of its payload write the
\* other thread's send has reported failure.
C18_Witness ==
    /\ prog = "chan"
    /\ \E t \in Threads :
         /\ pc[t] = "send_write2"
         /\ message = Torn
         /\ res.op = "send" /\ res.out = "panic" /\ res.thr # t

\* C19: in every channel variant, within one generation the payload goes
\* from empty to being written to written and changes in no other way, it
\* changes only while ready is false, ready is true only when the payload
\* is fully written, and a receive whose swap of ready returns true finds
\* the payload fully written.
C19_WriteThenPublish ==
    /\ [](prog \in ChannelPrograms => (ready => message \in Values))
    /\ [][(prog \in ChannelPrograms /\ gen' = gen /\ message' # message)
            => /\ ~ready /\ ~ready'
               /\ \/ message = Uninit /\ message' = Torn
                  \/ message = Torn /\ message' \in Values]_vars
    /\ [][(prog \in ChannelPrograms /\ ready' /\ ~ready)
            => (message \in Values /\ message' = message)]_vars
    /\ [][(prog \in ChannelPrograms /\ Len(rlog') = Len(rlog) + 1
            /\ rlog'[Len(rlog')].saw) => message \in Values]_vars

\* C19 witness: the second generation of a borrowed-split Channel has
\* written and published its message after the first generation did.
C19_Witness ==
    /\ prog = "split"
    /\ gen = 2
    /\ ready /\ message \in Values
    /\ Len(published) = 2
    /\ published[1].gen = 1 /\ published[2].gen = 2

\* C20: in every channel variant an is_ready() call is one step that
\* returns and leaves the payload, ready, in_use and every call in progress
\* as they were, so the send and the receive around it run as without it.
C20_IsReadyFrame ==
    [][(prog \in ChannelPrograms /\ PollStep)
         => UNCHANGED <<message, ready, in_use, pc, arg, endpoints, token,
                        published, rlog, destroyed>>]_vars

\* C20 witness: on the Arc channel the receiver polled is_ready() at least
\* twice around the send and then received the sent message.
C20_Witness ==
    /\ prog = "safe"
    /\ calls >= 2
    /\ res.op = "receive" /\ res.out = "val"
    /\ published # <<>> /\ res.val = published[1].val

\* The values the Channel's Drop destroyed for generation g.
DestroyedOf(g) == {i \in DOMAIN destroyed : destroyed[i].gen = g}

\* C21: on the borrowed-split channel, in every generation the values
\* returned by receive() and the values destroyed by the Channel's Drop
\* are together never more than the values sent, and once the generation is
\* over (the Channel dropped, or split() called again) they are exactly the
\* values sent: each is returned or destroyed, not both and not neither.
C21_HandedOutOnce ==
    prog = "split" =>
      \A g \in 1..gen :
        /\ Cardinality(Returned(g)) + Cardinality(DestroyedOf(g)) <= Len(PublishedOf(g))
        /\ (g < gen \/ ~live) =>
             Cardinality(Returned(g)) + Cardinality(DestroyedOf(g)) = Len(PublishedOf(g))

\* C21 witness: the first generation's message was received, the storage
\* was split again, and the second generation's message, sent and never
\* received, was destroyed when the Channel was dropped.
C21_Witness ==
    /\ prog = "split"
    /\ ~live
    /\ gen = 2
    /\ Returned(1) # {} /\ DestroyedOf(1) = {}
    /\ Returned(2) = {} /\ DestroyedOf(2) # {}
    /\ Len(published) = 2

\* The send of the current generation has begun or has completed; the
\* receiver is inside receive().
SendBegun ==
    \/ pc[SenderT] \in {"send_write2", "send_store", "send_unpark"}
    \/ PublishedNow # <<>>
InReceive == pc[ReceiverT] \in {"recv_park", "recv_read"}

\* C22: on the borrowed-split channel the step that ends send() leaves the
\* token of the receiving thread, the thread that called split(),
\* available; a receiver that is parked once the send has completed has
\* the token available and so can return; and, both threads weakly fair, a
\* receive() in progress while the send has begun or completed eventually
\* returns.
C22_NoLostWakeup ==
    /\ [][(prog = "split" /\ pc[SenderT] = "send_unpark" /\ pc'[SenderT] = "done")
            => token']_vars
    /\ []((prog = "split" /\ pc[ReceiverT] = "recv_park"
             /\ pc[SenderT] = "done" /\ PublishedNow # <<>>) => token)
    /\ (prog = "split" /\ InReceive /\ SendBegun) ~> (pc[ReceiverT] = "done")

\* C22 witness: the receiver parked before the send published, the send has
\* since completed, and the token is there for the parked receiver.
C22_Witness ==
    /\ prog = "split"
    /\ pc[ReceiverT] = "recv_park"
    /\ pc[SenderT] = "done"
    /\ PublishedNow # <<>>
    /\ token
    /\ ready

\* C23: in both main programs of the guarded channels the main thread's
\* receive is never reached before the send has published and never
\* panics, a main thread that has finished has received the value sent,
\* and, both threads weakly fair, the main thread always finishes: it is
\* never left parked forever.
C23_MainsComplete ==
    /\ [](prog \in MainPrograms =>
            /\ \A i \in DOMAIN rlog : rlog[i].after /\ rlog[i].out # "panic"
            /\ pc[ReceiverT] # "panicked"
            /\ pc[ReceiverT] = "done" =>
                 /\ published # <<>>
                 /\ rlog[Len(rlog)].out = "val"
                 /\ rlog[Len(rlog)].val = published[1].val)
    /\ (prog \in MainPrograms) ~> (pc[ReceiverT] = "done")

\* C23 witness: the main thread of chap-5-channels found is_ready() false,
\* parked, was unparked after the send and received the sent value.
C23_Witness ==
    /\ prog = "chanmain"
    /\ pc[ReceiverT] = "done"
    /\ pc[SenderT] = "done"
    /\ ~token
    /\ rlog[Len(rlog)].out = "val"
    /\ rlog[Len(rlog)].val = published[1].val

\* Thread t is inside a lock() call.
InLock(t) == pc[t] \in {"lock", "spin"}

\* C24: in the spin-lock programs without re-entrant acquisition, every
\* thread weakly fair, a step of lock() either stays in lock() or returns
\* the Guard (there is no other way out), every lock() call eventually
\* returns the Guard, and eventually all threads have finished for good
\* with the lock unlocked.
C24_LockProgress ==
    /\ [][\A t \in Threads :
            (InLock(t) /\ ~InLock(t)') => (pc'[t] = "read" /\ t \in guards')]_vars
    /\ \A t \in Threads : InLock(t) ~> (t \in guards)
    /\ <>[](AllDone /\ ~locked /\ guards = {})

\* C24 witness: the push program has finished with the lock unlocked, and
\* thread 1 was the last to get the Guard: its lock() returned after the
\* others had held the lock.
C24_Witness ==
    /\ prog = "push"
    /\ AllDone
    /\ ~locked /\ guards = {}
    /\ owner = 1
    /\ value[Len(value)] = 1

\* The state of the in_use-flag channel: 0 Empty, 1 Written (ready is set),
\* 2 Consumed (a recieve has taken the message).
ChanState == IF Taken THEN 2 ELSE IF ready THEN 1 ELSE 0

\* C25: on the in_use-flag channel, whatever calls are made and however
\* they interleave, no step moves the state back along Empty, Written,
\* Consumed; in_use once true stays true; Written is reached only with the
\* payload of the one send; and once a recieve has taken the message no
\* send gets past the in_use swap and ready is never set again.
C25_ForwardOnly ==
    /\ [][prog = "chan" => (ChanState' >= ChanState /\ (in_use => in_use'))]_vars
    /\ [](prog = "chan" => (ChanState >= 1 => in_use /\ Len(published) = 1))
    /\ [][(prog = "chan" /\ Taken) =>
            /\ ~ready'
            /\ \A t \in Threads : pc[t] = "idle" => pc'[t] # "send_write"]_vars

\* C25 witness: a send published, a recieve returned the message, and a
\* later send has failed: the channel is Consumed with in_use still set.
C25_Witness ==
    /\ prog = "chan"
    /\ ChanState = 2
    /\ Len(rlog) = 1 /\ rlog[1].out = "val"
    /\ res.op = "send" /\ res.out = "panic"
    /\ in_use /\ ~ready
    /\ calls = 3

\* C26: with every thread calling allocate_new_id_updated(), each id
\* returned is in 0..IdLimit-1, no two calls return the same id, NEW_ID is
\* never above IdLimit, a thread panics only on having observed IdLimit,
\* and the ids come out in the order NEW_ID was modified: each successful
\* compare-exchange returns the value the one before it stored.
C26_AllocateIds ==
    prog = "ids" =>
      /\ NEW_ID <= IdLimit
      /\ \A k \in DOMAIN issued : issued[k].id \in 0..(IdLimit - 1)
      /\ \A j, k \in DOMAIN issued : j # k => issued[j].id # issued[k].id
      /\ \A k \in DOMAIN issued : issued[k].id = issued[1].id + (k - 1)
      /\ issued # <<>> => NEW_ID = issued[Len(issued)].id + 1
      /\ \A t \in Threads : pc[t] = "panicked" => id[t] = IdLimit /\ NEW_ID = IdLimit

\* C26 witness: the last ids below IdLimit went to two different threads
\* and a thread that then observed IdLimit has panicked.
C26_Witness ==
    /\ prog = "ids"
    /\ NEW_ID = IdLimit
    /\ Len(issued) >= 2
    /\ issued[Len(issued)].id = IdLimit - 1
    /\ issued[Len(issued)].thr # issued[Len(issued) - 1].thr
    /\ \E t \in Threads : pc[t] = "panicked"

\* The threads of the try-lock program that are between their successful
\* compare_exchange and their store of false, and those of them that have
\* not yet pushed.
Holders == {t \in Threads : pc[t] \in {"push_read", "push_write", "f_store"}}
Pushing == {t \in Threads : pc[t] \in {"push_read", "push_write"}}

\* C27: with every thread running f() once, at most one thread is between
\* its successful compare_exchange and its store of false, only such a
\* thread touches DATA and LOCKED is true while it does, the characters
\* pushed are one for each thread whose compare_exchange succeeded, and
\* when all threads have finished at least one has pushed and LOCKED is
\* false.
C27_TryLock ==
    prog = "trylock" =>
      /\ Cardinality(Holders) <= 1
      /\ Holders # {} => LOCKED
      /\ Holders \subseteq wins
      /\ Len(DATA) + Cardinality(Pushing) = Cardinality(wins)
      /\ AllDone => /\ Len(DATA) = Cardinality(wins)
                    /\ Len(DATA) >= 1
                    /\ ~LOCKED

\* C27 witness: all threads have finished, one of them found LOCKED true
\* and pushed nothing.
C27_Witness ==
    /\ prog = "trylock"
    /\ AllDone
    /\ Cardinality(wins) < NumThreads
    /\ Len(DATA) = Cardinality(wins)
    /\ ~LOCKED

\* The threads of main that are at their S.push.
PushingS == {t \in Threads : pc[t] \in {"push_read", "push_write"}}

\* C28: in the SeqCst main at most one of a and b gets to its S.push, so
\* the two pushes never both happen, and when both have finished S has
\* zero or one character.
C28_SeqCstFlags ==
    prog = "seqcst" =>
      /\ Cardinality(PushingS) + Len(S) <= 1
      /\ ~(pc[ThreadA] \notin {"flag_store", "flag_load"} /\ ~seen[ThreadA]
           /\ pc[ThreadB] \notin {"flag_store", "flag_load"} /\ ~seen[ThreadB])
      /\ AllDone => Len(S) \in {0, 1}

\* C28 witness: both stores came before both loads: a and b have finished
\* and neither pushed.
C28_Witness ==
    /\ prog = "seqcst"
    /\ AllDone
    /\ seen[ThreadA] /\ seen[ThreadB]
    /\ S = <<>>

=============================================================================
